---- MODULE Spec2Model ----
(***************************************************************************)
(* Model of nerve/tools/mcp/client.py: the MCP client connection manager.  *)
(*                                                                         *)
(* One Client instance, used by the callers in Callers.  A caller's        *)
(* coroutine runs without interruption from one await that really waits    *)
(* on the outside world to the next one; those awaits are the values of    *)
(* pc:                                                                     *)
(*   "acquire"  enter_async_context(self._create_*_streams())   l. 82/87   *)
(*   "session"  enter_async_context(ClientSession(...))         l. 92      *)
(*   "init"     wait_for(self._session.initialize(), timeout)   l. 98      *)
(*   "clist"    self._session.list_tools(), tools() run by                 *)
(*              connect() at l. 108                              l. 126    *)
(*   "tlist"    self._session.list_tools(), tools() run by the             *)
(*              caller                                           l. 126    *)
(*   "call"     self._session.call_tool(name, kwargs)           l. 138     *)
(* The remote side and the transports are opaque: every outcome they can   *)
(* produce is a nondeterministic choice.  exit(n) raises SystemExit, which *)
(* nothing in the module catches: it is modelled as the end of the         *)
(* process.  Entering ClientSession only starts its receive loop and has   *)
(* no failure outcome.                                                     *)
(***************************************************************************)
EXTENDS Integers, Sequences, FiniteSets, TLC

\* ------------------------------------------------------------------ bounds
MaxOps == 3          \* top-level calls made on the instance
MaxContent == 3      \* content elements in one tool-call response
MaxTools == 2        \* tools the remote side advertises
MaxEnv == 2          \* entries of server.env

Callers == {"A", "B"}
Owner == {"A"}

\* ------------------------------------------------------- values and inputs
Urls == {"", "http://localhost:9090/sse"}

ToolLists == {<<>>} \cup {<<"t1">>} \cup
             (IF MaxTools >= 2 THEN {<<"t1", "t2">>, <<"t2", "t1">>} ELSE {}) \cup
             (IF MaxTools >= 3 THEN {<<"t1", "t2", "t3">>} ELSE {})

TextContent(s) == [kind |-> "text", text |-> s, mimeType |-> "", data |-> ""]
ImageContent(m, d) == [kind |-> "image", text |-> "", mimeType |-> m, data |-> d]
EmbeddedResource == [kind |-> "resource", text |-> "", mimeType |-> "", data |-> ""]

Elems == {TextContent("a"), TextContent("b"), ImageContent("image/png", "AAAA"),
          EmbeddedResource}

RECURSIVE SeqsUpTo(_, _)
SeqsUpTo(S, n) ==
    IF n = 0 THEN {<<>>}
    ELSE LET shorter == SeqsUpTo(S, n - 1)
         IN  shorter \cup {Append(s, e) : s \in {t \in shorter : Len(t) = n - 1}, e \in S}

\* CallToolResult: the error flag and the ordered content
Responses == [isError : BOOLEAN, content : SeqsUpTo(Elems, MaxContent)]

NoRet == [isError |-> FALSE, content |-> <<>>]

SessIds == 1 .. (MaxOps + 1)

\* server.env: an ordered mapping, as the dict the configuration was read
\* into; a blank value is a placeholder for the process environment
EnvNames == <<"API_KEY", "API_URL", "API_ORG">>
EnvConfigs ==
    UNION {[1 .. n -> {"", "configured"}] : n \in 0 .. MaxEnv}
EnvOf(values) ==
    [i \in 1 .. Len(values) |-> [key |-> EnvNames[i], value |-> values[i]]]

\* os.environ restricted to the names of server.env: a name may be absent,
\* set to the empty string or set to a value
Environs ==
    UNION {[S -> {"", "ambient"}] :
              S \in SUBSET {EnvNames[i] : i \in 1 .. MaxEnv}}

\* the configuration the instance of Spec was built from
DefaultEnv == EnvOf(<<"configured">>)
DefaultEnviron == [k \in {"API_KEY"} |-> "ambient"]

\* ----------------------------------------------------------------- state
VARIABLES
    instance,      \* "none" before __init__ has returned, then "usable"
    env,           \* server.env
    environ,       \* os.environ
    server_params, \* self.server_params
    stdioEnvs,     \* the env mappings handed to stdio_client
    url,           \* server.url
    proc,          \* "running" | "exited"
    exitCode,      \* status passed to exit(); -1 while running
    exitCause,     \* which exit() ended the process
    _session,      \* self._session: 0 is None, else the session's identity
    _tools,        \* self._tools
    _exit_stack,   \* self._exit_stack: contexts entered, in order
    initState,     \* per session: "none" | "pending" | "ok" | "failed" | "timeout"
    pc,            \* per caller: where its coroutine is suspended
    idx,           \* per caller: index in hist of its current call
    fate,          \* per caller: the session its connect() created and how that
                   \* session's initialize() will end
    ret,           \* per caller: call_tool's local `ret`
    result,        \* per caller: what its last call gave back
    hist,          \* the top-level calls made so far, in order
    nAcquire,      \* stream factories invoked
    nSession,      \* ClientSession objects created
    nInit,         \* initialize() handshakes started
    nList,         \* list_tools requests sent
    nCall,         \* call_tool requests sent
    factoryCalls,  \* which stream factories were invoked
    requests,      \* the requests sent, with the session's condition when sent
    fetched,       \* a list_tools response was stored in self._tools
    connectOk      \* a connect() body ran to its end (l. 110)

\* what __init__ reads and sets
construction == <<instance, env, environ, server_params>>

vars == <<construction, stdioEnvs,
          url, proc, exitCode, exitCause, _session, _tools, _exit_stack, initState,
          pc, idx, fate, ret, result, hist, nAcquire, nSession, nInit, nList,
          nCall, factoryCalls, requests, fetched, connectOk>>

NoFate == [end |-> "-", sess |-> 0]

NoResult == [kind |-> "none", err |-> "", shape |-> "none", items |-> <<>>, path |-> ""]

NoParams == [env |-> <<>>]

\* the attributes as l. 33-35 set them, no call made yet
Fresh ==
    /\ url \in Urls
    /\ proc = "running"
    /\ exitCode = -1
    /\ exitCause = "none"
    /\ _session = 0
    /\ _tools = <<>>
    /\ _exit_stack = <<>>
    /\ initState = [s \in SessIds |-> "none"]
    /\ pc = [c \in Callers |-> "idle"]
    /\ idx = [c \in Callers |-> 0]
    /\ fate = [c \in Callers |-> NoFate]
    /\ ret = [c \in Callers |-> NoRet]
    /\ result = [c \in Callers |-> NoResult]
    /\ hist = <<>>
    /\ nAcquire = 0
    /\ nSession = 0
    /\ nInit = 0
    /\ nList = 0
    /\ nCall = 0
    /\ factoryCalls = {}
    /\ requests = {}
    /\ fetched = FALSE
    /\ connectOk = FALSE
    /\ stdioEnvs = {}

\* an instance built from a configuration that needed nothing resolved
Init ==
    /\ Fresh
    /\ instance = "usable"
    /\ env = DefaultEnv
    /\ environ = DefaultEnviron
    /\ server_params = [env |-> DefaultEnv]

\* before Client(name, server): any configuration, any process environment
EnvInit ==
    /\ Fresh
    /\ instance = "none"
    /\ env \in {EnvOf(values) : values \in EnvConfigs}
    /\ environ \in Environs
    /\ server_params = NoParams

Op(c) == IF idx[c] = 0 THEN "none" ELSE hist[idx[c]].op

AllIdle == \A c \in Callers : pc[c] = "idle"

\* ------------------------------------------------- decisions of the code
\* variant: the guard looks at the tool cache instead of the session
IsConnected_ByCache(s) == s # 0 /\ _tools # <<>>

\* variant: a guard that never finds the instance connected
IsConnected_Never(s) == FALSE

\* `if self._session` (l. 77, 115, 132): a ClientSession object is truthy
IsConnected(s) == s # 0

\* variant: the two branches of l. 80 exchanged
SelectTransport_Swapped(u) == IF u # "" THEN "stdio" ELSE "sse"

\* `if self.server.url` (l. 80)
SelectTransport(u) == IF u # "" THEN "sse" ELSE "stdio"

\* variant: tools() without the early return of l. 120-121
CacheHit_Never(ts) == FALSE

\* `if self._tools` (l. 120): an empty list is falsy
CacheHit(ts) == ts # <<>>

\* exit(1) for an environment variable that is not set (l. 28)
ConfigErrorExit == 1

\* os.getenv(key) is truthy (l. 21-22)
Ambient(amb, k) == k \in DOMAIN amb /\ amb[k] # ""

\* variant: `os.getenv(key) or value`: the process environment wins
Resolve_AmbientWins(e, amb, i) ==
    LET e1 == [j \in 1 .. Len(e) |->
                 IF Ambient(amb, e[j].key)
                 THEN [key |-> e[j].key, value |-> amb[e[j].key]]
                 ELSE e[j]]
        bad == {j \in 1 .. Len(e) : e1[j].value = ""}
    IN  [env |-> e1, ok |-> bad = {}]

\* variant: the check of l. 26-28 placed after the loop, on the last key only
Resolve_ChecksLast(e, amb, i) ==
    LET e1 == [j \in 1 .. Len(e) |->
                 IF e[j].value = "" /\ Ambient(amb, e[j].key)
                 THEN [key |-> e[j].key, value |-> amb[e[j].key]]
                 ELSE e[j]]
    IN  [env |-> e1, ok |-> (Len(e) = 0 \/ e1[Len(e)].value # "")]

\* the loop of l. 19-28 from entry i on: a blank value is replaced by a
\* truthy os.getenv(key); the first entry still blank stops the loop (exit)
RECURSIVE Resolve(_, _, _)
Resolve(e, amb, i) ==
    IF i > Len(e) THEN [env |-> e, ok |-> TRUE]
    ELSE LET k == e[i].key
             e1 == IF e[i].value = "" /\ Ambient(amb, k)
                   THEN [e EXCEPT ![i].value = amb[k]]
                   ELSE e
         IN  IF e1[i].value = ""
             THEN [env |-> e1, ok |-> FALSE]
             ELSE Resolve(e1, amb, i + 1)

\* exit(0) in the stream factories' handlers (l. 52, 74)
AcquireFailureExit == 0

\* exit(1) in the handler of asyncio.TimeoutError (l. 104)
HandshakeTimeoutExit == 1

\* ------------------------------------------ call_tool's result (l. 141-160)
PyStr(s) == [py |-> "str", v |-> s]

\* variant: the URL built without its "data:" scheme
PyImageUrl_NoScheme(m, d) ==
    [py |-> "dict", type |-> "image_url",
     image_url |-> [url |-> m \o ";base64," \o d]]

\* l. 150-153: the dict built for an ImageContent
PyImageUrl(m, d) ==
    [py |-> "dict", type |-> "image_url",
     image_url |-> [url |-> "data:" \o m \o ";base64," \o d]]

Returned(shape, items, path) ==
    [kind |-> "return", err |-> "", shape |-> shape, items |-> items, path |-> path]
Raised(err, path) ==
    [kind |-> "raise", err |-> err, shape |-> "none", items |-> <<>>, path |-> path]

\* variant: l. 160 written `responses[0] if responses else responses`
RECURSIVE Normalize_UnwrapsFirst(_, _, _)
Normalize_UnwrapsFirst(content, i, responses) ==
    IF i > Len(content)
    THEN IF Len(responses) >= 1
         THEN Returned("single", <<responses[1]>>, "call")
         ELSE Returned("list", responses, "call")
    ELSE LET elem == content[i] IN
         CASE elem.kind = "text" ->
                  Normalize_UnwrapsFirst(content, i + 1,
                                         Append(responses, PyStr(elem.text)))
           [] elem.kind = "image" ->
                  Normalize_UnwrapsFirst(content, i + 1,
                      Append(responses, PyImageUrl(elem.mimeType, elem.data)))
           [] elem.kind = "resource" ->
                  Raised("EmbeddedResource not supported yet", "call")
           [] OTHER -> Normalize_UnwrapsFirst(content, i + 1, responses)

\* variant: an EmbeddedResource falls through the chain like an unknown type
RECURSIVE Normalize_SkipsResource(_, _, _)
Normalize_SkipsResource(content, i, responses) ==
    IF i > Len(content)
    THEN IF Len(responses) = 1
         THEN Returned("single", responses, "call")
         ELSE Returned("list", responses, "call")
    ELSE LET elem == content[i] IN
         CASE elem.kind = "text" ->
                  Normalize_SkipsResource(content, i + 1,
                                          Append(responses, PyStr(elem.text)))
           [] elem.kind = "image" ->
                  Normalize_SkipsResource(content, i + 1,
                      Append(responses, PyImageUrl(elem.mimeType, elem.data)))
           [] OTHER -> Normalize_SkipsResource(content, i + 1, responses)

\* the loop of l. 144-156, from element i on, with `responses` so far
RECURSIVE Normalize(_, _, _)
Normalize(content, i, responses) ==
    IF i > Len(content)
    THEN \* l. 160: responses[0] if len(responses) == 1 else responses
         IF Len(responses) = 1
         THEN Returned("single", responses, "call")
         ELSE Returned("list", responses, "call")
    ELSE LET elem == content[i] IN
         CASE elem.kind = "text" ->
                  Normalize(content, i + 1, Append(responses, PyStr(elem.text)))
           [] elem.kind = "image" ->
                  Normalize(content, i + 1,
                            Append(responses, PyImageUrl(elem.mimeType, elem.data)))
           [] elem.kind = "resource" ->
                  Raised("EmbeddedResource not supported yet", "call")
           [] OTHER -> Normalize(content, i + 1, responses)

\* variant: the content is normalized before the error flag is looked at
CallToolResult_ContentFirst(r) ==
    LET n == Normalize(r.content, 1, <<>>) IN
    IF n.kind = "raise" THEN n
    ELSE IF r.isError THEN Raised("invocation", "call") ELSE n

\* l. 141-160 applied to the response r
CallToolResult(r) ==
    IF r.isError THEN Raised("invocation", "call")
    ELSE Normalize(r.content, 1, <<>>)

\* --------------------------------------------------------------- helpers
Request(kind, s, ist, stack) ==
    [kind |-> kind, sess |-> s, init |-> ist, streams |-> (Len(stack) > 0)]

Entry(o, c) ==
    [op |-> o, caller |-> c, conn |-> connectOk, sess |-> _session, lists |-> 0]

CanStart(c) ==
    instance = "usable" /\ proc = "running" /\ pc[c] = "idle" /\ Len(hist) < MaxOps

\* a new top-level call o of caller c: its record in hist, its locals reset
Begin(c, o) ==
    /\ CanStart(c)
    /\ idx' = [idx EXCEPT ![c] = Len(hist) + 1]
    /\ ret' = [ret EXCEPT ![c] = NoRet]

\* hist after the call at position i sent k list_tools requests
Listed(h, i, k) == [h EXCEPT ![i].lists = @ + k]

\* l. 80-89: connect() past its guard invokes the selected stream factory
EnterStreams(c) ==
    /\ nAcquire' = nAcquire + 1
    /\ factoryCalls' = factoryCalls \cup {SelectTransport(url)}
    /\ stdioEnvs' = IF SelectTransport(url) = "stdio"
                    THEN stdioEnvs \cup {server_params.env}
                    ELSE stdioEnvs
    /\ pc' = [pc EXCEPT ![c] = "acquire"]
    /\ result' = [result EXCEPT ![c] = NoResult]

\* connect() has returned to the call o that ran it, self._tools being tl and
\* the session s (initialized: ist); o goes on to its next await or its end.
\*   connect:   done
\*   tools:     l. 117-126
\*   call_tool: l. 134-138
AfterConnect(c, o, tl, s, ist, h) ==
    CASE o = "connect" ->
            /\ pc' = [pc EXCEPT ![c] = "idle"]
            /\ result' = [result EXCEPT ![c] = Returned("none", <<>>, "connected")]
            /\ hist' = h
            /\ UNCHANGED <<nList, nCall, requests>>
      [] o = "tools" ->
            IF ~IsConnected(s)
            THEN /\ pc' = [pc EXCEPT ![c] = "idle"]
                 /\ result' = [result EXCEPT ![c] =
                                   Raised("failed to connect to MCP server", "tools")]
                 /\ hist' = h
                 /\ UNCHANGED <<nList, nCall, requests>>
            ELSE IF CacheHit(tl)
            THEN /\ pc' = [pc EXCEPT ![c] = "idle"]
                 /\ result' = [result EXCEPT ![c] = Returned("tools", tl, "cache")]
                 /\ hist' = h
                 /\ UNCHANGED <<nList, nCall, requests>>
            ELSE /\ pc' = [pc EXCEPT ![c] = "tlist"]
                 /\ nList' = nList + 1
                 /\ requests' = requests \cup {Request("list_tools", s, ist, _exit_stack)}
                 /\ hist' = Listed(h, idx[c], 1)
                 /\ UNCHANGED <<result, nCall>>
      [] o = "call_tool" ->
            IF ~IsConnected(s)
            THEN /\ pc' = [pc EXCEPT ![c] = "idle"]
                 /\ result' = [result EXCEPT ![c] =
                                   Raised("failed to connect to MCP server", "call_tool")]
                 /\ hist' = h
                 /\ UNCHANGED <<nList, nCall, requests>>
            ELSE /\ pc' = [pc EXCEPT ![c] = "call"]
                 /\ nCall' = nCall + 1
                 /\ requests' = requests \cup {Request("call_tool", s, ist, _exit_stack)}
                 /\ hist' = h
                 /\ UNCHANGED <<result, nList>>

\* ------------------------------------------------------------ operations
\* Client.__init__ (l. 18-35)
Client_init ==
    /\ proc = "running" /\ instance = "none"
    /\ LET r == Resolve(env, environ, 1) IN
          /\ env' = r.env
          /\ IF r.ok
             THEN /\ instance' = "usable"
                  /\ server_params' = [env |-> r.env]
                  /\ UNCHANGED <<proc, exitCode, exitCause>>
             ELSE /\ proc' = "exited"
                  /\ exitCode' = ConfigErrorExit
                  /\ exitCause' = "env"
                  /\ UNCHANGED <<instance, server_params>>
    /\ UNCHANGED <<environ, stdioEnvs, url, _session, _tools, _exit_stack, initState,
                   pc, idx, fate, ret, result, hist, nAcquire, nSession, nInit,
                   nList, nCall, factoryCalls, requests, fetched, connectOk>>

\* Client.connect, up to its first await
connect(c) ==
    /\ Begin(c, "connect")
    /\ hist' = Append(hist, Entry("connect", c))
    /\ IF IsConnected(_session)
       THEN /\ result' = [result EXCEPT ![c] = Returned("none", <<>>, "noop")]
            /\ UNCHANGED <<pc, nAcquire, factoryCalls, stdioEnvs>>
       ELSE EnterStreams(c)
    /\ UNCHANGED <<construction, url, proc, exitCode, exitCause, _session, _tools, _exit_stack,
                   initState, fate, nSession, nInit, nList, nCall, requests,
                   fetched, connectOk>>

\* Client.tools, up to its first await
tools(c) ==
    /\ Begin(c, "tools")
    /\ IF ~IsConnected(_session)
       THEN /\ EnterStreams(c)
            /\ hist' = Append(hist, Entry("tools", c))
            /\ UNCHANGED <<nList, requests>>
       ELSE IF CacheHit(_tools)
       THEN /\ result' = [result EXCEPT ![c] = Returned("tools", _tools, "cache")]
            /\ hist' = Append(hist, Entry("tools", c))
            /\ UNCHANGED <<pc, nAcquire, factoryCalls, stdioEnvs, nList, requests>>
       ELSE /\ pc' = [pc EXCEPT ![c] = "tlist"]
            /\ result' = [result EXCEPT ![c] = NoResult]
            /\ nList' = nList + 1
            /\ requests' = requests \cup
                   {Request("list_tools", _session, initState[_session], _exit_stack)}
            /\ hist' = Listed(Append(hist, Entry("tools", c)), Len(hist) + 1, 1)
            /\ UNCHANGED <<nAcquire, factoryCalls, stdioEnvs>>
    /\ UNCHANGED <<construction, url, proc, exitCode, exitCause, _session, _tools, _exit_stack,
                   initState, fate, nSession, nInit, nCall, fetched, connectOk>>

\* Client.call_tool, up to its first await
call_tool(c) ==
    /\ Begin(c, "call_tool")
    /\ hist' = Append(hist, Entry("call_tool", c))
    /\ IF ~IsConnected(_session)
       THEN /\ EnterStreams(c)
            /\ UNCHANGED <<nCall, requests>>
       ELSE /\ pc' = [pc EXCEPT ![c] = "call"]
            /\ result' = [result EXCEPT ![c] = NoResult]
            /\ nCall' = nCall + 1
            /\ requests' = requests \cup
                   {Request("call_tool", _session, initState[_session], _exit_stack)}
            /\ UNCHANGED <<nAcquire, factoryCalls, stdioEnvs>>
    /\ UNCHANGED <<construction, url, proc, exitCode, exitCause, _session, _tools, _exit_stack,
                   initState, fate, nSession, nInit, nList, fetched, connectOk>>

\* the stream factory yields its pair (l. 45 / 67); connect goes on to l. 92
StreamsAcquired(c) ==
    /\ proc = "running" /\ pc[c] = "acquire"
    /\ _exit_stack' = Append(_exit_stack, SelectTransport(url))
    /\ pc' = [pc EXCEPT ![c] = "session"]
    /\ UNCHANGED <<construction, stdioEnvs, url, proc, exitCode, exitCause, _session, _tools, initState, idx,
                   fate, ret, result, hist, nAcquire, nSession, nInit, nList, nCall,
                   factoryCalls, requests, fetched, connectOk>>

\* variant: the handler ends the process with an error status
StreamsFailed_ExitError(c) ==
    /\ proc = "running" /\ pc[c] = "acquire"
    /\ proc' = "exited"
    /\ exitCode' = HandshakeTimeoutExit
    /\ exitCause' = "acquire"
    /\ UNCHANGED <<construction, stdioEnvs, url, _session, _tools, _exit_stack, initState, pc, idx, fate, ret,
                   result, hist, nAcquire, nSession, nInit, nList, nCall,
                   factoryCalls, requests, fetched, connectOk>>

\* variant: the handler only logs, and connect() returns to its caller
StreamsFailed_Swallowed(c) ==
    /\ proc = "running" /\ pc[c] = "acquire"
    /\ AfterConnect(c, Op(c), _tools, _session, "none", hist)
    /\ UNCHANGED <<construction, stdioEnvs, url, proc, exitCode, exitCause, _session, _tools, _exit_stack,
                   initState, idx, fate, ret, nAcquire, nSession, nInit,
                   factoryCalls, fetched, connectOk>>

\* the stream factory raises while opening: l. 48-52 / 70-74
StreamsFailed(c) ==
    /\ proc = "running" /\ pc[c] = "acquire"
    /\ proc' = "exited"
    /\ exitCode' = AcquireFailureExit
    /\ exitCause' = "acquire"
    /\ UNCHANGED <<construction, stdioEnvs, url, _session, _tools, _exit_stack, initState, pc, idx, fate, ret,
                   result, hist, nAcquire, nSession, nInit, nList, nCall,
                   factoryCalls, requests, fetched, connectOk>>

\* l. 92-98: the session is entered and stored, initialize() is started;
\* f is how the remote side will treat the handshake
SessionEntered(c) ==
    /\ proc = "running" /\ pc[c] = "session"
    /\ \E f \in {"ok", "error", "hang"} :
           fate' = [fate EXCEPT ![c] = [end |-> f, sess |-> nSession + 1]]
    /\ nSession' = nSession + 1
    /\ _session' = nSession + 1
    /\ _exit_stack' = Append(_exit_stack, "session")
    /\ initState' = [initState EXCEPT ![nSession + 1] = "pending"]
    /\ nInit' = nInit + 1
    /\ pc' = [pc EXCEPT ![c] = "init"]
    /\ UNCHANGED <<construction, stdioEnvs, url, proc, exitCode, exitCause, _tools, idx, ret, result, hist,
                   nAcquire, nList, nCall, factoryCalls, requests, fetched, connectOk>>

\* l. 98 returns in time; l. 108 runs tools(), which finds the session set
\* and either returns the cache or sends list_tools (l. 120-126)
InitOk(c) ==
    /\ proc = "running" /\ pc[c] = "init" /\ fate[c].end = "ok"
    /\ initState' = [initState EXCEPT ![fate[c].sess] = "ok"]
    /\ IF CacheHit(_tools)
       THEN /\ connectOk' = TRUE
            /\ AfterConnect(c, Op(c), _tools, _session, initState'[_session], hist)
       ELSE /\ pc' = [pc EXCEPT ![c] = "clist"]
            /\ nList' = nList + 1
            /\ requests' = requests \cup
                   {Request("list_tools", _session, initState'[_session], _exit_stack)}
            /\ hist' = Listed(hist, idx[c], 1)
            /\ UNCHANGED <<result, nCall, connectOk>>
    /\ UNCHANGED <<construction, stdioEnvs, url, proc, exitCode, exitCause, _session, _tools, _exit_stack, idx,
                   fate, ret, nAcquire, nSession, nInit, factoryCalls, fetched>>

\* variant: the failed session is dropped from self._session (and left open)
InitError_ClearsSession(c) ==
    /\ proc = "running" /\ pc[c] = "init" /\ fate[c].end = "error"
    /\ initState' = [initState EXCEPT ![fate[c].sess] = "failed"]
    /\ _session' = 0
    /\ pc' = [pc EXCEPT ![c] = "idle"]
    /\ result' = [result EXCEPT ![c] = Raised("initialize", "connect")]
    /\ UNCHANGED <<construction, stdioEnvs, url, proc, exitCode, exitCause, _tools, _exit_stack, idx,
                   fate, ret, hist, nAcquire, nSession, nInit, nList, nCall,
                   factoryCalls, requests, fetched, connectOk>>

\* initialize() raises something that is not a timeout: nothing in connect()
\* handles it, the caller gets it
InitError(c) ==
    /\ proc = "running" /\ pc[c] = "init" /\ fate[c].end = "error"
    /\ initState' = [initState EXCEPT ![fate[c].sess] = "failed"]
    /\ pc' = [pc EXCEPT ![c] = "idle"]
    /\ result' = [result EXCEPT ![c] = Raised("initialize", "connect")]
    /\ UNCHANGED <<construction, stdioEnvs, url, proc, exitCode, exitCause, _session, _tools, _exit_stack, idx,
                   fate, ret, hist, nAcquire, nSession, nInit, nList, nCall,
                   factoryCalls, requests, fetched, connectOk>>

\* variant: the TimeoutError is left to the caller, the process goes on
InitTimeout_Propagates(c) ==
    /\ proc = "running" /\ pc[c] = "init" /\ fate[c].end = "hang"
    /\ initState' = [initState EXCEPT ![fate[c].sess] = "timeout"]
    /\ pc' = [pc EXCEPT ![c] = "idle"]
    /\ result' = [result EXCEPT ![c] = Raised("TimeoutError", "connect")]
    /\ UNCHANGED <<construction, stdioEnvs, url, proc, exitCode, exitCause, _session, _tools, _exit_stack, idx,
                   fate, ret, hist, nAcquire, nSession, nInit, nList, nCall,
                   factoryCalls, requests, fetched, connectOk>>

\* session_timeout elapses first: wait_for raises TimeoutError, l. 99-104
InitTimeout(c) ==
    /\ proc = "running" /\ pc[c] = "init" /\ fate[c].end = "hang"
    /\ initState' = [initState EXCEPT ![fate[c].sess] = "timeout"]
    /\ proc' = "exited"
    /\ exitCode' = HandshakeTimeoutExit
    /\ exitCause' = "timeout"
    /\ UNCHANGED <<construction, stdioEnvs, url, _session, _tools, _exit_stack, pc, idx, fate, ret, result,
                   hist, nAcquire, nSession, nInit, nList, nCall, factoryCalls,
                   requests, fetched, connectOk>>

\* list_tools answers the tools() run by connect(): l. 127-129, then l. 108-112
ConnectListed(c) ==
    /\ proc = "running" /\ pc[c] = "clist"
    /\ \E ts \in ToolLists :
          /\ _tools' = ts
          /\ AfterConnect(c, Op(c), ts, _session, initState[_session], hist)
    /\ fetched' = TRUE
    /\ connectOk' = TRUE
    /\ UNCHANGED <<construction, stdioEnvs, url, proc, exitCode, exitCause, _session, _exit_stack, initState,
                   idx, fate, ret, nAcquire, nSession, nInit, factoryCalls>>

\* list_tools raises in the tools() run by connect(): the caller gets it
ConnectListFailed(c) ==
    /\ proc = "running" /\ pc[c] = "clist"
    /\ pc' = [pc EXCEPT ![c] = "idle"]
    /\ result' = [result EXCEPT ![c] = Raised("list_tools", "connect")]
    /\ UNCHANGED <<construction, stdioEnvs, url, proc, exitCode, exitCause, _session, _tools, _exit_stack,
                   initState, idx, fate, ret, hist, nAcquire, nSession, nInit, nList,
                   nCall, factoryCalls, requests, fetched, connectOk>>

\* list_tools answers the caller's tools(): l. 127-129
ToolsListed(c) ==
    /\ proc = "running" /\ pc[c] = "tlist"
    /\ \E ts \in ToolLists :
          /\ _tools' = ts
          /\ result' = [result EXCEPT ![c] = Returned("tools", ts, "fetch")]
    /\ fetched' = TRUE
    /\ pc' = [pc EXCEPT ![c] = "idle"]
    /\ UNCHANGED <<construction, stdioEnvs, url, proc, exitCode, exitCause, _session, _exit_stack, initState,
                   idx, fate, ret, hist, nAcquire, nSession, nInit, nList, nCall,
                   factoryCalls, requests, connectOk>>

\* list_tools raises in the caller's tools()
ToolsListFailed(c) ==
    /\ proc = "running" /\ pc[c] = "tlist"
    /\ pc' = [pc EXCEPT ![c] = "idle"]
    /\ result' = [result EXCEPT ![c] = Raised("list_tools", "tools")]
    /\ UNCHANGED <<construction, stdioEnvs, url, proc, exitCode, exitCause, _session, _tools, _exit_stack,
                   initState, idx, fate, ret, hist, nAcquire, nSession, nInit, nList,
                   nCall, factoryCalls, requests, fetched, connectOk>>

\* variant: a failed invocation drops the session
CallAnswered_DropsSession(c) ==
    /\ proc = "running" /\ pc[c] = "call"
    /\ \E r \in Responses :
          /\ ret' = [ret EXCEPT ![c] = r]
          /\ result' = [result EXCEPT ![c] = CallToolResult(r)]
          /\ _session' = IF CallToolResult(r).kind = "raise" THEN 0 ELSE _session
    /\ pc' = [pc EXCEPT ![c] = "idle"]
    /\ UNCHANGED <<construction, stdioEnvs, url, proc, exitCode, exitCause, _tools, _exit_stack,
                   initState, idx, fate, hist, nAcquire, nSession, nInit, nList,
                   nCall, factoryCalls, requests, fetched, connectOk>>

\* the session answers call_tool with the response r: l. 138-160
CallAnswered(c) ==
    /\ proc = "running" /\ pc[c] = "call"
    /\ \E r \in Responses :
          /\ ret' = [ret EXCEPT ![c] = r]
          /\ result' = [result EXCEPT ![c] = CallToolResult(r)]
    /\ pc' = [pc EXCEPT ![c] = "idle"]
    /\ UNCHANGED <<construction, stdioEnvs, url, proc, exitCode, exitCause, _session, _tools, _exit_stack,
                   initState, idx, fate, hist, nAcquire, nSession, nInit, nList,
                   nCall, factoryCalls, requests, fetched, connectOk>>

\* the session's call_tool raises (l. 138): the caller gets it
CallFailed(c) ==
    /\ proc = "running" /\ pc[c] = "call"
    /\ pc' = [pc EXCEPT ![c] = "idle"]
    /\ result' = [result EXCEPT ![c] = Raised("call_tool", "session")]
    /\ UNCHANGED <<construction, stdioEnvs, url, proc, exitCode, exitCause, _session, _tools, _exit_stack,
                   initState, idx, fate, ret, hist, nAcquire, nSession, nInit, nList,
                   nCall, factoryCalls, requests, fetched, connectOk>>

\* ---------------------------------------------------------- specification
\* sequential use: the instance's single owner makes a call only when its
\* previous call has ended (CanStart), so no two calls are ever in flight
Next ==
    \E c \in Owner :
        \/ connect(c)
        \/ tools(c)
        \/ call_tool(c)
        \/ StreamsAcquired(c)
        \/ StreamsFailed(c)
        \/ SessionEntered(c)
        \/ InitOk(c)
        \/ InitError(c)
        \/ InitTimeout(c)
        \/ ConnectListed(c)
        \/ ConnectListFailed(c)
        \/ ToolsListed(c)
        \/ ToolsListFailed(c)
        \/ CallAnswered(c)
        \/ CallFailed(c)

Spec == Init /\ [][Next]_vars

\* the event loop runs the handshake's deadline timer
LiveSpec == Spec /\ \A c \in Owner : WF_vars(InitTimeout(c))

\* construction, then the calls as far as the handshake
EnvNext ==
    \/ Client_init
    \/ \E c \in Owner :
           \/ connect(c)
           \/ tools(c)
           \/ call_tool(c)
           \/ StreamsAcquired(c)
           \/ StreamsFailed(c)
           \/ SessionEntered(c)
           \/ InitOk(c)
           \/ InitError(c)
           \/ InitTimeout(c)

EnvSpec == EnvInit /\ [][EnvNext]_vars

\* overlapping use: two tasks of one event loop call the same instance, each
\* starting a call whenever its own previous call has ended, and the loop
\* switches between them at the awaits of l. 82-108, 124 and 138.  What a
\* call_tool response holds plays no part in the connection's state, so the
\* awaited call-tool request ends here by raising, which returns the caller to
\* idle exactly as an answer does.
OverlapNext ==
    \E c \in Callers :
        \/ connect(c)
        \/ tools(c)
        \/ call_tool(c)
        \/ StreamsAcquired(c)
        \/ StreamsFailed(c)
        \/ SessionEntered(c)
        \/ InitOk(c)
        \/ InitError(c)
        \/ InitTimeout(c)
        \/ ConnectListed(c)
        \/ ConnectListFailed(c)
        \/ ToolsListed(c)
        \/ ToolsListFailed(c)
        \/ CallFailed(c)

OverlapSpec == Init /\ [][OverlapNext]_vars

TypeOK ==
    /\ url \in Urls
    /\ proc \in {"running", "exited"}
    /\ exitCode \in {-1, 0, 1}
    /\ _session \in 0 .. MaxOps
    /\ _tools \in ToolLists
    /\ Len(hist) <= MaxOps
    /\ \A c \in Callers : pc[c] \in {"idle", "acquire", "session", "init", "clist",
                                     "tlist", "call"}

\* ================================================================ claims
\* a top-level call of caller c begins in this step
Starts(c) == idx'[c] # idx[c]

\* C1: every list_tools or call_tool request sent to the session comes after
\* a stream-pair acquisition and after an initialize() of that same session
\* that completed successfully.
C1_RequestsOnlyAfterHandshake ==
    \A r \in requests : r.streams /\ r.init = "ok"

\* C2: connect() on an instance that already holds a session is a no-op: it
\* returns at once, invokes no stream factory, creates no session, runs no
\* handshake, sends no list_tools request and leaves the session and the tool
\* cache as they were.
C2_ConnectNoOp ==
    [][\A c \in Callers :
          (Starts(c) /\ hist'[idx'[c]].op = "connect" /\ _session # 0)
          => /\ pc'[c] = "idle"
             /\ result'[c].kind = "return"
             /\ UNCHANGED <<_session, _tools, _exit_stack, initState, nAcquire,
                            nSession, nInit, nList, nCall, factoryCalls, requests>>]_vars

C2_Witness ==
    \E c \in Callers :
        /\ Op(c) = "connect" /\ pc[c] = "idle"
        /\ result[c].kind = "return" /\ result[c].path = "noop"
        /\ hist[idx[c]].sess # 0

\* C3: two tools() calls in a row on an instance whose connect() had run to
\* its end send at most one list_tools request between them, whatever tool
\* list the remote side returns, the empty one included.
C3_TwoToolsCallsOneRequest ==
    \A i \in 1 .. (Len(hist) - 1) :
        (hist[i].op = "tools" /\ hist[i + 1].op = "tools" /\ hist[i].conn)
        => hist[i].lists + hist[i + 1].lists <= 1

\* C4: once the tool cache is non-empty, no step sends a list_tools request
\* or changes the cache, and a tools() call that ends returns the cached list.
C4_CacheSticky ==
    [][_tools # <<>>
       => /\ _tools' = _tools
          /\ nList' = nList
          /\ \A c \in Callers :
                (pc'[c] = "idle" /\ (Starts(c) \/ pc[c] # "idle")
                   /\ hist'[idx'[c]].op = "tools")
                => /\ result'[c].kind = "return"
                   /\ result'[c].items = _tools]_vars

C4_Witness ==
    /\ _tools # <<>>
    /\ \E c \in Callers :
          /\ Op(c) = "tools" /\ pc[c] = "idle" /\ hist[idx[c]].sess # 0
          /\ result[c].path = "cache" /\ result[c].items = _tools
    /\ \E i \in 1 .. Len(hist) : hist[i].op = "call_tool"

\* C5: at rest, the instance holds a session (connect() would return at once)
\* only if that session's initialize() completed successfully and a tool list
\* was fetched and stored.
C5_ConnectedOnlyAfterHandshakeAndFetch ==
    (proc = "running" /\ AllIdle /\ _session # 0)
    => (initState[_session] = "ok" /\ fetched)

\* C6: an initialize() that does not complete within session_timeout leads to
\* the end of the process with exit code 1; until then no second handshake is
\* started, no list_tools or call_tool request is sent and the caller gets
\* nothing back.
C6_TimeoutExits ==
    /\ \A c \in Callers :
          (pc[c] = "init" /\ fate[c].end = "hang")
          ~> (proc = "exited" /\ exitCode = 1)
    /\ [][\A c \in Callers :
             (pc[c] = "init" /\ fate[c].end = "hang")
             => /\ nInit' = nInit /\ nList' = nList /\ nCall' = nCall
                /\ nAcquire' = nAcquire
                /\ result'[c].kind = "none"
                /\ (proc' = "exited" => exitCode' = 1)]_vars

C6_Witness ==
    /\ proc = "exited" /\ exitCode = 1 /\ exitCause = "timeout"
    /\ \E c \in Callers :
          pc[c] = "init" /\ fate[c].end = "hang" /\ result[c].kind = "none"

\* C7: when the process has ended, on whichever exit path, the instance holds
\* no open stream pair and no open session.
C7_ReleasedAtExit ==
    proc = "exited" => _exit_stack = <<>>

\* C8: a connect() that gets past its guard invokes exactly one stream
\* factory, the SSE one if url is non-empty and the stdio one otherwise; the
\* other factory is never invoked.
C8_TransportByUrl ==
    [][(\E c \in Callers : Starts(c)) /\ _session = 0
       => /\ nAcquire' = nAcquire + 1
          /\ factoryCalls' = {IF url = "" THEN "stdio" ELSE "sse"}]_vars

C8_Witness ==
    /\ url # "" /\ nAcquire = 1 /\ factoryCalls = {"sse"}
    /\ _exit_stack = <<"sse", "session">>

\* C9: when the selected stream factory raises while opening, the process
\* ends with exit code 0: no session exists, no initialize, list_tools or
\* call_tool request was sent, and the caller's call neither returned nor
\* raised.
C9_AcquireFailureExitsZero ==
    exitCause = "acquire"
    => /\ proc = "exited" /\ exitCode = 0
       /\ _session = 0 /\ nSession = 0 /\ nInit = 0 /\ nList = 0 /\ nCall = 0
       /\ requests = {}
       /\ \A c \in Callers : pc[c] = "acquire" => result[c].kind = "none"

C9_Witness ==
    /\ exitCause = "acquire" /\ proc = "exited" /\ url = ""
    /\ factoryCalls = {"stdio"}
    /\ \E c \in Callers : pc[c] = "acquire" /\ Op(c) = "call_tool"

\* C10: a call_tool whose response has isError set ends with the invocation
\* error, whatever the content of the response; nothing normalized is returned.
C10_IsErrorFirst ==
    \A c \in Callers :
        (pc[c] = "idle" /\ Op(c) = "call_tool" /\ result[c].path = "call"
            /\ ret[c].isError)
        => /\ result[c].kind = "raise"
           /\ result[c].err = "invocation"
           /\ result[c].items = <<>>

C10_Witness ==
    \E c \in Callers :
        /\ pc[c] = "idle" /\ Op(c) = "call_tool" /\ ret[c].isError
        /\ Len(ret[c].content) = 2
        /\ ret[c].content[1].kind = "image"
        /\ ret[c].content[2].kind = "resource"
        /\ result[c].kind = "raise" /\ result[c].err = "invocation"

\* call_tool of caller c has ended on a response without the error flag
Answered(c) ==
    /\ pc[c] = "idle" /\ Op(c) = "call_tool" /\ result[c].path = "call"
    /\ ~ret[c].isError

HasResource(content) ==
    \E i \in 1 .. Len(content) : content[i].kind = "resource"

\* C11: for a response without the error flag, call_tool returns the one
\* normalized element itself when exactly one resulted and the ordered list of
\* all of them otherwise (the empty list for no content); it never returns a
\* list of one element.
C11_SingleOrList ==
    \A c \in Callers :
        (Answered(c) /\ ~HasResource(ret[c].content))
        => /\ result[c].kind = "return"
           /\ Len(result[c].items) = Len(ret[c].content)
           /\ (Len(ret[c].content) = 1 => result[c].shape = "single")
           /\ (Len(ret[c].content) # 1 => result[c].shape = "list")
           /\ (ret[c].content = <<>> => result[c].items = <<>>)
           /\ (ret[c].content = <<TextContent("a"), TextContent("b")>>
                 => result[c].items = <<[py |-> "str", v |-> "a"],
                                        [py |-> "str", v |-> "b"]>>)

C11_Witness ==
    \E c \in Callers :
        /\ Answered(c)
        /\ ret[c].content = <<TextContent("a"), TextContent("b")>>
        /\ result[c].shape = "list" /\ Len(result[c].items) = 2

\* C12: for a response without the error flag whose content holds an embedded
\* resource, at whatever position, call_tool raises the "not supported" error
\* and returns nothing, the elements normalized before it included.
C12_ResourceFails ==
    \A c \in Callers :
        (Answered(c) /\ HasResource(ret[c].content))
        => /\ result[c].kind = "raise"
           /\ result[c].err = "EmbeddedResource not supported yet"
           /\ result[c].shape = "none"
           /\ result[c].items = <<>>

C12_Witness ==
    \E c \in Callers :
        /\ Answered(c)
        /\ Len(ret[c].content) = 3
        /\ ret[c].content[1].kind = "text"
        /\ ret[c].content[2].kind = "resource"
        /\ ret[c].content[3].kind = "image"
        /\ result[c].kind = "raise"

\* C16: for a response without the error flag whose elements are all text or
\* image, the normalized sequence has one entry per element, in the content's
\* order: the text of a text element, and for an image element the dict
\* {type: "image_url", image_url: {url: "data:" + mimeType + ";base64," + data}}.
C16_ElementwiseNormalization ==
    \A c \in Callers :
        (Answered(c) /\ ~HasResource(ret[c].content))
        => /\ result[c].kind = "return"
           /\ Len(result[c].items) = Len(ret[c].content)
           /\ \A i \in 1 .. Len(ret[c].content) :
                 LET e == ret[c].content[i]
                     n == result[c].items[i]
                 IN  IF e.kind = "text"
                     THEN n = [py |-> "str", v |-> e.text]
                     ELSE /\ n.py = "dict" /\ n.type = "image_url"
                          /\ DOMAIN n.image_url = {"url"}
                          /\ n.image_url.url = "data:" \o e.mimeType \o ";base64," \o e.data
                          /\ (e.mimeType = "image/png" /\ e.data = "AAAA"
                                => n.image_url.url = "data:image/png;base64,AAAA")

C16_Witness ==
    \E c \in Callers :
        /\ Answered(c)
        /\ Len(ret[c].content) = 3
        /\ ret[c].content[1].kind = "image"
        /\ ret[c].content[2].kind = "text"
        /\ ret[c].content[3].kind = "image"
        /\ result[c].kind = "return"
        /\ result[c].items[2] = [py |-> "str", v |-> ret[c].content[2].text]

\* the last call of caller c was a call_tool that failed at invocation time
InvocationFailed(c) ==
    /\ Op(c) = "call_tool" /\ pc[c] = "idle"
    /\ result[c].kind = "raise" /\ result[c].path = "call"
    /\ result[c].err \in {"invocation", "EmbeddedResource not supported yet"}

\* C15: a call_tool that fails at invocation time (isError, or an embedded
\* resource) raises to its caller without ending the process and leaves the
\* session, the exit stack, the handshake state and the tool cache as they
\* were; the call_tool that follows is sent on the same session with no new
\* stream acquisition, session, handshake or list_tools request.
C15_InvocationFailureRecoverable ==
    [][\A c \in Callers :
          /\ (pc[c] = "call" /\ InvocationFailed(c)')
             => /\ proc' = "running"
                /\ UNCHANGED <<_session, _tools, _exit_stack, initState, connectOk,
                               nAcquire, nSession, nInit, nList, nCall>>
          /\ (InvocationFailed(c) /\ Starts(c) /\ hist'[idx'[c]].op = "call_tool")
             => /\ pc'[c] = "call"
                /\ nCall' = nCall + 1
                /\ _session # 0
                /\ Request("call_tool", _session, initState[_session], _exit_stack)
                      \in requests'
                /\ UNCHANGED <<_session, _tools, _exit_stack, initState, nAcquire,
                               nSession, nInit, nList>>]_vars

C15_Witness ==
    \E c \in Callers :
        /\ InvocationFailed(c)
        /\ result[c].err = "EmbeddedResource not supported yet"
        /\ proc = "running" /\ _session # 0 /\ _tools # <<>>
        /\ hist[idx[c]].sess = _session
        /\ idx[c] >= 2 /\ hist[idx[c] - 1].op = "call_tool"

\* C17: once the instance holds a session, no step clears or replaces it.
C17_SessionNeverCleared ==
    [][_session # 0 => _session' = _session]_vars

C17_Witness ==
    \E c \in Callers :
        /\ pc[c] = "idle" /\ result[c].kind = "raise"
        /\ hist[idx[c]].sess # 0 /\ _session = hist[idx[c]].sess
        /\ idx[c] = 3

\* C18: under sequential calls, whatever errors earlier calls raised, the
\* instance invokes a stream factory at most once and creates at most one
\* session.
C18_OneAcquisitionOneSession ==
    /\ nAcquire <= 1
    /\ nSession <= 1
    /\ Len(_exit_stack) <= 2

C18_Witness ==
    /\ nAcquire = 1 /\ nSession = 1
    /\ Len(hist) >= 3
    /\ hist[1].sess = 0 /\ hist[2].sess # 0
    /\ initState[_session] = "failed"
    /\ \E c \in Callers : pc[c] = "idle" /\ result[c].kind = "raise"
                          /\ result[c].err = "list_tools"

\* C19: a connect() that returns normally leaves the instance holding a
\* session, and no call ever raises "failed to connect to MCP server".
C19_FailedToConnectUnreachable ==
    /\ connectOk => _session # 0
    /\ \A c \in Callers :
          /\ result[c].err # "failed to connect to MCP server"
          /\ (pc[c] = "idle" /\ Op(c) = "connect" /\ result[c].kind = "return")
             => _session # 0
          /\ (pc[c] \in {"tlist", "call"}) => _session # 0

C19_Witness ==
    \E c \in Callers :
        /\ pc[c] = "idle" /\ Op(c) = "tools" /\ hist[idx[c]].sess = 0
        /\ result[c].kind = "return" /\ result[c].path = "cache"
        /\ _session # 0

\* some entry of server.env is blank and the process environment has no
\* non-blank value for its name
Unresolved ==
    \E i \in 1 .. Len(env) :
        /\ env[i].value = ""
        /\ ~(env[i].key \in DOMAIN environ /\ environ[env[i].key] # "")

\* C13: with an env entry that is blank and has no non-blank value in the
\* process environment, at whatever position, construction ends the process
\* with exit code 1: no usable instance results, no stream factory is
\* invoked and no session is created.
C13_UnresolvedEnvFatal ==
    /\ [](Unresolved
          => /\ instance = "none"
             /\ server_params = NoParams
             /\ nAcquire = 0 /\ nSession = 0 /\ factoryCalls = {}
             /\ stdioEnvs = {} /\ _exit_stack = <<>> /\ _session = 0
             /\ hist = <<>>
             /\ (proc = "exited" => exitCode = 1 /\ exitCause = "env"))
    /\ [][(Unresolved /\ instance = "none")
          => (Unresolved' /\ proc' = "exited" /\ exitCode' = 1)]_vars

C13_Witness ==
    /\ proc = "exited" /\ exitCode = 1 /\ exitCause = "env"
    /\ instance = "none"
    /\ Len(env) = 2
    /\ env[1].value = "ambient"
    /\ env[2].value = ""
    /\ "API_URL" \in DOMAIN environ /\ environ["API_URL"] = ""

\* C14: when every blank env entry has a non-blank value in the process
\* environment, construction succeeds: each blank entry takes that value, the
\* other entries keep their configured value whatever the process environment
\* holds for them, and the stdio stream factory is handed that mapping.
C14_ResolvedEnvUsed ==
    [][/\ (instance = "none" /\ ~Unresolved)
          => /\ instance' = "usable" /\ proc' = "running"
             /\ Len(env') = Len(env)
             /\ \A i \in 1 .. Len(env) :
                   /\ env'[i].key = env[i].key
                   /\ env'[i].value = IF env[i].value = ""
                                      THEN environ[env[i].key]
                                      ELSE env[i].value
                   /\ env'[i].value # ""
             /\ server_params'.env = env'
       /\ (nAcquire' # nAcquire /\ url = "")
          => /\ stdioEnvs' = {env}
             /\ env' = env
             /\ \A i \in 1 .. Len(env) : env[i].value # ""
       /\ (nAcquire' # nAcquire /\ url # "") => stdioEnvs' = {}]_vars

C14_Witness ==
    /\ instance = "usable" /\ url = ""
    /\ env = <<[key |-> "API_KEY", value |-> "ambient"],
               [key |-> "API_URL", value |-> "configured"]>>
    /\ "API_URL" \in DOMAIN environ /\ environ["API_URL"] = "ambient"
    /\ stdioEnvs = {env}
    /\ _exit_stack = <<"stdio">>


\* C20: even when two callers' calls on one instance overlap, interleaving at
\* the awaits, the instance invokes a stream factory at most once, creates at
\* most one session, and sends no list_tools or call_tool request on a session
\* whose initialize() has not completed.
C20_OverlapSafe ==
    /\ nAcquire <= 1
    /\ nSession <= 1
    /\ \A r \in requests : r.init = "ok"

====
